---- MODULE Spec2Model ----
(***************************************************************************)
(* Model of the WebSearcher of src/main.py: the ordered fallback across    *)
(* the three search engines, the blocked-engine set, the per-engine result *)
(* extraction, and the page content fetch.                                 *)
(*                                                                         *)
(* Python strings are modelled as sequences of one-character strings, so   *)
(* that strip, startswith, split and len are computed as the code computes *)
(* them.  An optional value (None or a string) is <<>> or <<s>>.           *)
(***************************************************************************)
EXTENDS Integers, Sequences, FiniteSets, TLC

(***************************************************************************)
(* Bounds of the model                                                     *)
(***************************************************************************)
\* longest list of result containers a rendered page holds
MaxContainers == 2

(***************************************************************************)
(* Program constants                                                       *)
(***************************************************************************)
\* search_web: max_results = min(max_results, 100)
MaxResultsCap == 100
\* len(snippet_text) > 20
SnippetFloor == 20

(***************************************************************************)
(* String helpers (str methods of Python)                                  *)
(***************************************************************************)
Min(a, b) == IF a <= b THEN a ELSE b
Max(a, b) == IF a >= b THEN a ELSE b

Whitespace == {" ", "\n", "\t"}

\* s.startswith(p)
StartsWith(s, p) == Len(s) >= Len(p) /\ SubSeq(s, 1, Len(p)) = p

\* s[n:] for n >= 0
DropPrefix(s, n) == SubSeq(s, n + 1, Len(s))

RECURSIVE LStrip(_)
LStrip(s) ==
    IF s # <<>> /\ Head(s) \in Whitespace THEN LStrip(Tail(s)) ELSE s

RECURSIVE RStrip(_)
RStrip(s) ==
    IF s # <<>> /\ s[Len(s)] \in Whitespace
    THEN RStrip(SubSeq(s, 1, Len(s) - 1)) ELSE s

\* s.strip()
Strip(s) == RStrip(LStrip(s))

\* s.find(p) + 1: 1-based index of the first occurrence of p in s, 0 if none
RECURSIVE FindFrom(_, _, _)
FindFrom(s, p, i) ==
    IF i + Len(p) - 1 > Len(s) THEN 0
    ELSE IF SubSeq(s, i, i + Len(p) - 1) = p THEN i
    ELSE FindFrom(s, p, i + 1)

Find(s, p) == FindFrom(s, p, 1)

\* s.split(p): the list of the pieces of s between occurrences of p
RECURSIVE Split(_, _)
Split(s, p) ==
    LET k == Find(s, p) IN
    IF k = 0 THEN <<s>>
    ELSE <<SubSeq(s, 1, k - 1)>> \o Split(DropPrefix(s, k + Len(p) - 1), p)

\* seq[:n] of Python, for any integer n (a negative n counts from the end)
PySlicePrefix(seq, n) ==
    IF n >= 0 THEN SubSeq(seq, 1, Min(n, Len(seq)))
    ELSE SubSeq(seq, 1, Max(0, Len(seq) + n))

\* n copies of the character c
Rep(c, n) == [k \in 1..n |-> c]

(***************************************************************************)
(* urlparse(url).netloc                                                    *)
(***************************************************************************)
SchemeChars == {"h", "t", "p", "s", "e", "a", "+", "-", "."}
SchemeFirst == {"h", "t", "p", "s", "e", "a"}

\* the part of url after its scheme and colon, or url itself if it has none
AfterScheme(url) ==
    LET i == Find(url, <<":">>) IN
    IF i > 1 /\ url[1] \in SchemeFirst
             /\ \A k \in 1..(i - 1) : url[k] \in SchemeChars
    THEN DropPrefix(url, i) ELSE url

RECURSIVE UpToDelim(_)
UpToDelim(s) ==
    IF s = <<>> \/ Head(s) \in {"/", "?", "#"} THEN <<>>
    ELSE <<Head(s)>> \o UpToDelim(Tail(s))

Netloc(url) ==
    LET rest == AfterScheme(url) IN
    IF StartsWith(rest, <<"/", "/">>) THEN UpToDelim(DropPrefix(rest, 2))
    ELSE <<>>

(***************************************************************************)
(* The rendered page, as the DOM queries of the code see it.               *)
(*                                                                         *)
(* A container is a record                                                 *)
(*   titles  : the title elements, each [text, href] (href optional)       *)
(*   links   : hrefs of the anchors around the h3 (Google's first query)   *)
(*   anchors : hrefs of all anchors with an href (Google's second query)   *)
(*   snips   : per snippet selector, the text of its first element, <<>>   *)
(*             when the selector matches nothing                           *)
(*   exc     : where a DOM call on this container raises, "none" if never *)
(***************************************************************************)
T_title == <<"T">>
T_blank == <<" ">>
T_padded == <<" ", "T", " ">>

U_plain == <<"h", ":", "/", "/", "e", "/">>
U_other == <<"h", ":", "/", "/", "a", "/", "p">>
U_search == <<"/", "s", "e", "a", "r", "c", "h", "?">>
U_anchor == <<"#", "a">>
U_redirect ==
    <<"/", "u", "r", "l", "?", "q", "=">> \o U_plain \o <<"&", "s", "a">>

\* a redirect wrapper around nothing
U_unwrapped_empty == <<"/", "u", "r", "l", "?", "q", "=", "&", "s", "a">>

\* snippet texts around the length floor
S_short == Rep("s", SnippetFloor)
S_long == Rep("l", SnippetFloor + 1)
S_padded == <<" ">> \o Rep("p", SnippetFloor) \o <<" ">>

Container(titles, links, anchors, snips, exc) ==
    [titles |-> titles, links |-> links, anchors |-> anchors,
     snips |-> snips, exc |-> exc]

TitleEl(text, href) == [text |-> text, href |-> href]

\* a well-formed result
C_good ==
    Container(<<TitleEl(T_title, <<U_plain>>)>>, <<<<U_plain>>>>,
              <<<<U_plain>>>>, <<<<S_long>>>>, "none")
\* a second well-formed result, whose first snippet candidate is too short
C_second ==
    Container(<<TitleEl(T_padded, <<U_other>>)>>, <<>>,
              <<<<U_other>>>>, <<<<S_short>>, <<>>, <<S_long>>>>, "none")
\* no title element (an ad or info panel)
C_notitle ==
    Container(<<>>, <<<<U_plain>>>>, <<<<U_plain>>>>, <<<<S_long>>>>, "none")
\* a title element whose text is blank
C_blanktitle ==
    Container(<<TitleEl(T_blank, <<U_plain>>)>>, <<<<U_plain>>>>,
              <<<<U_plain>>>>, <<>>, "none")
\* a title but no link, and a title element without href
C_nolink ==
    Container(<<TitleEl(T_title, <<>>)>>, <<>>, <<>>, <<<<S_padded>>>>, "none")
\* a link back into the engine's own search
C_internal ==
    Container(<<TitleEl(T_title, <<U_search>>)>>, <<<<U_search>>>>,
              <<<<U_search>>>>, <<<<S_short>>>>, "none")
\* a page anchor
C_anchor ==
    Container(<<TitleEl(T_title, <<U_anchor>>)>>, <<<<U_anchor>>>>,
              <<>>, <<>>, "none")
\* a redirect-wrapped link
C_redirect ==
    Container(<<TitleEl(T_title, <<U_redirect>>)>>, <<<<U_redirect>>>>,
              <<>>, <<<<S_padded>>>>, "none")
\* a redirect-wrapped link with an empty target
C_redirect_empty ==
    Container(<<TitleEl(T_title, <<U_unwrapped_empty>>)>>,
              <<<<U_unwrapped_empty>>>>, <<>>, <<>>, "none")
\* a stale container: its first DOM query raises
C_stale ==
    Container(<<TitleEl(T_title, <<U_plain>>)>>, <<<<U_plain>>>>,
              <<<<U_plain>>>>, <<<<S_long>>>>, "title")
\* a container whose snippet query raises
C_badsnippet ==
    Container(<<TitleEl(T_title, <<U_plain>>)>>, <<<<U_plain>>>>,
              <<<<U_plain>>>>, <<<<S_long>>>>, "snippet")

\* the containers that lists of every length are built from
CoreContainers ==
    {C_good, C_second, C_notitle, C_nolink, C_redirect, C_stale}

\* further containers, tried one at a time
EdgeContainers ==
    {C_blanktitle, C_internal, C_anchor, C_badsnippet, C_redirect_empty}

\* the container lists a page can hold, in document order
ContainerLists ==
    UNION {[1..n -> CoreContainers] : n \in 0..MaxContainers}
    \cup {<<c>> : c \in EdgeContainers}

(***************************************************************************)
(* Result extraction (the three _parse_*_results)                          *)
(***************************************************************************)
SearchResult(title, url, snippet, rank, engine) ==
    [title |-> title, url |-> url, domain |-> Netloc(url),
     snippet |-> snippet, rank |-> rank, source_engine |-> engine]

\* the text of the first element of snippet selector k, <<>> if it matches none
Candidate(c, k) == IF k <= Len(c.snips) THEN c.snips[k] ELSE <<>>

\* number of entries of Google's snippet_xpaths
GoogleSnippetXPaths == 5

\* for xpath in snippet_xpaths: first candidate whose stripped text is longer
\* than the floor; "" when none is
RECURSIVE google_snippet(_, _)
google_snippet(c, k) ==
    IF k > GoogleSnippetXPaths THEN <<>>
    ELSE LET cand == Candidate(c, k) IN
         IF cand # <<>> /\ Len(Strip(cand[1])) > SnippetFloor
         THEN Strip(cand[1])
         ELSE google_snippet(c, k + 1)

\* url.split('/url?q=')[1].split('&')[0]
unwrap_redirect(url) ==
    IF StartsWith(url, <<"/", "u", "r", "l", "?", "q", "=">>)
    THEN Split(Split(url, <<"/", "u", "r", "l", "?", "q", "=">>)[2], <<"&">>)[1]
    ELSE url

\* One pass of Google's loop body on container c at 0-based index i: the
\* result list after it.  A `continue` and a caught exception both leave the
\* list as it was.
google_container(c, i, include_snippets, results) ==
    IF c.exc = "title" THEN results
    ELSE IF c.titles = <<>> THEN results
    ELSE IF Strip(c.titles[1].text) = <<>> THEN results
    ELSE LET link_elements == IF c.links # <<>> THEN c.links ELSE c.anchors IN
    IF link_elements = <<>> THEN results
    ELSE LET href == link_elements[1] IN
    IF href = <<>> \/ href[1] = <<>>
       \/ StartsWith(href[1], <<"/", "s", "e", "a", "r", "c", "h">>)
       \/ StartsWith(href[1], <<"#">>)
    THEN results
    ELSE IF include_snippets /\ c.exc = "snippet" THEN results
    ELSE Append(results,
                SearchResult(Strip(c.titles[1].text), unwrap_redirect(href[1]),
                             IF include_snippets THEN google_snippet(c, 1)
                             ELSE <<>>,
                             i + 1, "google"))

\* The loop body shared in shape by DuckDuckGo and Bing: title and href come
\* from the same element, the snippet from one selector with no length test.
anchor_container(c, i, include_snippets, results, engine) ==
    IF c.exc = "title" THEN results
    ELSE IF c.titles = <<>> THEN results
    ELSE LET title == Strip(c.titles[1].text)
             url == c.titles[1].href IN
    IF title = <<>> \/ url = <<>> \/ url[1] = <<>> THEN results
    ELSE IF include_snippets /\ c.exc = "snippet" THEN results
    ELSE Append(results,
                SearchResult(title, url[1],
                             IF include_snippets /\ Candidate(c, 1) # <<>>
                             THEN Strip(Candidate(c, 1)[1]) ELSE <<>>,
                             i + 1, engine))

duckduckgo_container(c, i, include_snippets, results) ==
    anchor_container(c, i, include_snippets, results, "duckduckgo")

bing_container(c, i, include_snippets, results) ==
    anchor_container(c, i, include_snippets, results, "bing")

container_step(engine, c, i, include_snippets, results) ==
    CASE engine = "google" -> google_container(c, i, include_snippets, results)
      [] engine = "duckduckgo" ->
             duckduckgo_container(c, i, include_snippets, results)
      [] engine = "bing" -> bing_container(c, i, include_snippets, results)

\* variant: no try inside the loop, a container that raises ends the loop
RECURSIVE parse_loop_aborts(_, _, _, _, _)
parse_loop_aborts(engine, cs, i, include_snippets, results) ==
    IF i >= Len(cs) THEN results
    ELSE IF cs[i + 1].exc = "title"
            \/ (cs[i + 1].exc = "snippet" /\ include_snippets)
    THEN results
    ELSE parse_loop_aborts(engine, cs, i + 1, include_snippets,
                           container_step(engine, cs[i + 1], i,
                                          include_snippets, results))

\* for i, container in enumerate(result_containers[:max_results])
RECURSIVE parse_loop(_, _, _, _, _)
parse_loop(engine, cs, i, include_snippets, results) ==
    IF i >= Len(cs) THEN results
    ELSE parse_loop(engine, cs, i + 1, include_snippets,
                    container_step(engine, cs[i + 1], i, include_snippets,
                                   results))

\* _parse_<engine>_results.  page.find = "raise" is the DOM query for the
\* container collection raising: the outer except logs it and the (still
\* empty) list is returned.
parse_results(engine, page, max_results, include_snippets) ==
    IF page.find = "raise" THEN <<>>
    ELSE parse_loop(engine, PySlicePrefix(page.containers, max_results),
                    0, include_snippets, <<>>)

parse_google_results(page, max_results, include_snippets) ==
    parse_results("google", page, max_results, include_snippets)

parse_duckduckgo_results(page, max_results, include_snippets) ==
    parse_results("duckduckgo", page, max_results, include_snippets)

parse_bing_results(page, max_results, include_snippets) ==
    parse_results("bing", page, max_results, include_snippets)

(***************************************************************************)
(* Engine adapters (_search_google, _search_duckduckgo, _search_bing)      *)
(*                                                                         *)
(* A page is what the browser shows for one navigation:                    *)
(*   nav        : "ok", or "raise" when driver.get raises                  *)
(*   wait       : "ok", or "timeout" when the results region never shows   *)
(*   source     : <<text>> of page_source, <<>> when reading it raises     *)
(*   find       : "ok", or "raise" when locating the containers raises     *)
(*   containers : the result containers in document order                  *)
(***************************************************************************)
Page(nav, wait, source, find, containers) ==
    [nav |-> nav, wait |-> wait, source |-> source, find |-> find,
     containers |-> containers]

Lower(ch) ==
    CASE ch = "C" -> "c" [] ch = "A" -> "a" [] ch = "P" -> "p"
      [] ch = "T" -> "t" [] ch = "H" -> "h" [] ch = "N" -> "n"
      [] OTHER -> ch

\* s.lower()
LowerCase(s) == [k \in 1..Len(s) |-> Lower(s[k])]

\* blocked_indicators
blocked_indicators == <<
    <<"u", "n", "u", "s", "u", "a", "l", " ", "t", "r", "a", "f", "f", "i",
      "c">>,
    <<"c", "a", "p", "t", "c", "h", "a">>,
    <<"b", "l", "o", "c", "k", "e", "d">>,
    <<"v", "e", "r", "i", "f", "y", " ", "y", "o", "u", "'", "r", "e", " ",
      "n", "o", "t", " ", "a", " ", "r", "o", "b", "o", "t">>,
    <<"o", "u", "r", " ", "s", "y", "s", "t", "e", "m", "s", " ", "h", "a",
      "v", "e", " ", "d", "e", "t", "e", "c", "t", "e", "d", " ", "u", "n",
      "u", "s", "u", "a", "l", " ", "t", "r", "a", "f", "f", "i", "c">>
    >>

\* any(indicator in page_source for indicator in blocked_indicators); a
\* failing read of page_source gives False (bare except)
is_google_blocked(page) ==
    IF page.source = <<>> THEN FALSE
    ELSE \E k \in 1..Len(blocked_indicators) :
             Find(LowerCase(page.source[1]), blocked_indicators[k]) > 0

\* sample page texts
P_normal == <<"N", "o", "r", "m", "a", "l">>
P_captcha == <<"a", " ", "C", "A", "P", "T", "C", "H", "A">>
P_unusual ==
    <<"x", " ", "u", "n", "u", "s", "u", "a", "l", " ", "t", "r", "a", "f",
      "f", "i", "c">>

\* Outcome of an adapter call: it raises, or returns a result list.
Raised == [raised |-> TRUE, results |-> <<>>]
Returned(results) == [raised |-> FALSE, results |-> results]

\* variant: the page goes to the parser without the block check
google_steps_unchecked(drv, page) ==
    IF drv = "None" THEN <<>>
    ELSE IF drv = "quit" \/ page.nav = "raise" THEN <<"get">>
    ELSE IF page.wait = "timeout" THEN <<"get", "wait">>
    ELSE <<"get", "wait", "parse">>

\* The statements of _search_google's try block that run, in order: driver.get,
\* the WebDriverWait, _is_google_blocked, _parse_google_results.  A statement
\* that raises is the last one; after a positive block check the adapter
\* raises, so "check" is the last one then.
google_steps(drv, page) ==
    IF drv = "None" THEN <<>>
    ELSE IF drv = "quit" \/ page.nav = "raise" THEN <<"get">>
    ELSE IF page.wait = "timeout" THEN <<"get", "wait">>
    ELSE IF is_google_blocked(page) THEN <<"get", "wait", "check">>
    ELSE <<"get", "wait", "check", "parse">>

\* _search_duckduckgo and _search_bing: driver.get, then the parser
anchor_steps(drv, page) ==
    IF drv = "None" THEN <<>>
    ELSE IF drv = "quit" \/ page.nav = "raise" THEN <<"get">>
    ELSE <<"get", "parse">>

\* the adapter returns what its parser returns when the parser was the last
\* statement to run, and raises otherwise
reaches_parser(steps) == steps # <<>> /\ steps[Len(steps)] = "parse"

search_google(drv, page, query, max_results, include_snippets) ==
    IF reaches_parser(google_steps(drv, page))
    THEN Returned(parse_google_results(page, max_results, include_snippets))
    ELSE Raised

search_duckduckgo(drv, page, query, max_results, include_snippets) ==
    IF reaches_parser(anchor_steps(drv, page))
    THEN Returned(parse_duckduckgo_results(page, max_results,
                                           include_snippets))
    ELSE Raised

search_bing(drv, page, query, max_results, include_snippets) ==
    IF reaches_parser(anchor_steps(drv, page))
    THEN Returned(parse_bing_results(page, max_results, include_snippets))
    ELSE Raised

\* self.search_engines, in order of preference
search_engines == <<"google", "duckduckgo", "bing">>

Engines == {search_engines[k] : k \in 1..Len(search_engines)}

\* engine['method'](query, max_results, include_snippets)
method(engine, drv, page, query, max_results, include_snippets) ==
    CASE engine = "google" ->
             search_google(drv, page, query, max_results, include_snippets)
      [] engine = "duckduckgo" ->
             search_duckduckgo(drv, page, query, max_results, include_snippets)
      [] engine = "bing" ->
             search_bing(drv, page, query, max_results, include_snippets)

\* the statements engine['method'] runs on a page
adapter_steps(engine, drv, page) ==
    IF engine = "google" THEN google_steps(drv, page)
    ELSE anchor_steps(drv, page)

Range(seq) == {seq[k] : k \in 1..Len(seq)}

\* the page text _is_google_blocked read in that call, <<>> when it did not
\* run or could not read it
checked_text(engine, drv, page) ==
    IF "check" \in Range(adapter_steps(engine, drv, page))
    THEN page.source ELSE <<>>

\* The pages an engine can answer with.
Pages ==
    {Page("raise", "ok", <<P_normal>>, "ok", <<>>),
     Page("ok", "timeout", <<P_normal>>, "ok", <<>>),
     Page("ok", "ok", <<P_captcha>>, "ok", <<C_good>>),
     Page("ok", "ok", <<P_unusual>>, "ok", <<C_good>>),
     Page("ok", "ok", <<>>, "ok", <<C_good>>),
     Page("ok", "ok", <<P_normal>>, "raise", <<>>)}
    \cup {Page("ok", "ok", <<P_normal>>, "ok", cs) : cs \in ContainerLists}

(***************************************************************************)
(* State                                                                   *)
(***************************************************************************)
VARIABLES
    driver,              \* self.driver: "None", "live", or "quit" after close
    driver_initialized,  \* self.driver_initialized
    blocked_engines,     \* self.blocked_engines
    pc,                  \* "idle", or "loop" inside search_with_fallback
    idx,                 \* 1-based position of the for loop in search_engines
    args,                \* the arguments of the current (or last) operation
    calls,               \* adapter invocations made by that operation
    ret,                 \* what the last finished operation returned
    attempts,            \* history: per engine, what last happened to it
    blocked_at_entry     \* history: blocked_engines when it was entered

vars ==
    <<driver, driver_initialized, blocked_engines, pc, idx, args, calls, ret,
      attempts, blocked_at_entry>>

\* inputs of the tools
Queries == {"q1", "q2"}
MaxResultsInputs == {-1, 0, 1, 500}

NoArgs ==
    [query |-> "", max_results |-> 0, include_snippets |-> FALSE,
     caller |-> "none", requested |-> 0]

SearchReturn(raised, results, engine_used) ==
    [op |-> "search_with_fallback", raised |-> raised, results |-> results,
     engine_used |-> engine_used]

Init ==
    /\ driver = "None"
    /\ driver_initialized = FALSE
    /\ blocked_engines = {}
    /\ pc = "idle"
    /\ idx = 1
    /\ args = NoArgs
    /\ calls = <<>>
    /\ ret = [op |-> "init"]
    /\ attempts = [e \in Engines |-> "never"]
    /\ blocked_at_entry = {}

\* main: mcp.run() has not returned nor raised yet, tools are being served
Serving == ret.op # "exit"

(***************************************************************************)
(* search_with_fallback                                                    *)
(***************************************************************************)
\* if not self.driver_initialized or self.driver is None
needs_setup(drv, initialized) == ~initialized \/ drv = "None"

\* variant: the blocked check is left out
is_skipped_never(engine_name, blocked) == FALSE

\* if engine_name in self.blocked_engines: continue
is_skipped(engine_name, blocked) == engine_name \in blocked

\* the ways _setup_driver can end when this call runs it: it succeeds (TRUE)
\* or raises (FALSE); a call that does not run it has one way to go on
SetupOutcomes ==
    IF needs_setup(driver, driver_initialized) THEN BOOLEAN ELSE {TRUE}

\* variant: any list an adapter returns ends the call, an empty one too
returns_now_any_list(outcome) == ~outcome.raised

\* if results: ... return results, engine_name
returns_now(outcome) == ~outcome.raised /\ outcome.results # <<>>

\* variant: no except clause, an adapter's exception leaves the method
propagates_uncaught(outcome) == outcome.raised

\* except Exception as e: every exception of an adapter is caught in the loop,
\* none leaves search_with_fallback
propagates(outcome) == FALSE

\* variant: the except clause does not record the engine
blocked_after_forgets(outcome, engine_name, blocked) ==
    IF outcome.raised THEN blocked
    ELSE IF outcome.results # <<>> THEN blocked \ {engine_name}
    ELSE blocked

\* variant: an empty list is treated like a failure
blocked_after_empty_blocks(outcome, engine_name, blocked) ==
    IF outcome.raised \/ outcome.results = <<>>
    THEN blocked \cup {engine_name}
    ELSE blocked \ {engine_name}

\* blocked_engines after the try statement of one loop pass: discard on a
\* non-empty list, add on an exception, untouched on an empty list
blocked_after(outcome, engine_name, blocked) ==
    IF outcome.raised THEN blocked \cup {engine_name}
    ELSE IF outcome.results # <<>> THEN blocked \ {engine_name}
    ELSE blocked

\* the tool or method that calls search_with_fallback, and the max_results it
\* was itself called with (history)
Caller(name, requested) == [name |-> name, requested |-> requested]

\* Entry of search_with_fallback up to the for loop.  _setup_driver either
\* succeeds or raises; its exception leaves the method.
search_with_fallback(query, max_results, include_snippets, from, setup_ok) ==
    /\ Serving
    /\ pc = "idle"
    /\ args' = [query |-> query, max_results |-> max_results,
                include_snippets |-> include_snippets,
                caller |-> from.name, requested |-> from.requested]
    /\ calls' = <<>>
    /\ blocked_at_entry' = blocked_engines
    /\ idx' = 1
    /\ UNCHANGED <<blocked_engines, attempts>>
    /\ IF needs_setup(driver, driver_initialized) /\ ~setup_ok
       THEN /\ ret' = SearchReturn(TRUE, <<>>, "none")
            /\ pc' = "idle"
            /\ UNCHANGED <<driver, driver_initialized>>
       ELSE /\ driver' = IF needs_setup(driver, driver_initialized)
                         THEN "live" ELSE driver
            /\ driver_initialized' = TRUE
            /\ IF driver' = "None"
               THEN /\ ret' = SearchReturn(FALSE, <<>>, "none")
                    /\ pc' = "idle"
               ELSE /\ ret' = [op |-> "running"]
                    /\ pc' = "loop"

\* variant: the limit goes to search_with_fallback as it came
search_web_unclamped ==
    \E query \in Queries, max_results \in MaxResultsInputs,
       include_snippets \in BOOLEAN, setup_ok \in SetupOutcomes :
        search_with_fallback(query, max_results, include_snippets,
                             Caller("search_web", max_results), setup_ok)

\* search_web: max_results = min(max_results, 100)
search_web ==
    \E query \in Queries, max_results \in MaxResultsInputs,
       include_snippets \in BOOLEAN, setup_ok \in SetupOutcomes :
        search_with_fallback(query, Min(max_results, MaxResultsCap),
                             include_snippets,
                             Caller("search_web", max_results), setup_ok)

\* the legacy WebSearcher.search_google: no clamp
legacy_search_google ==
    \E query \in Queries, max_results \in MaxResultsInputs,
       include_snippets \in BOOLEAN, setup_ok \in SetupOutcomes :
        search_with_fallback(query, max_results, include_snippets,
                             Caller("search_google", max_results), setup_ok)

\* variant: a pass that did not return is run again on the same engine
next_engine_retries(i) == i

\* for engine in self.search_engines: the pass after this one
next_engine(i) == i + 1

\* one pass of the loop over an engine that is in blocked_engines
loop_skip ==
    /\ pc = "loop"
    /\ idx <= Len(search_engines)
    /\ is_skipped(search_engines[idx], blocked_engines)
    /\ idx' = next_engine(idx)
    /\ UNCHANGED <<driver, driver_initialized, blocked_engines, pc, args,
                   calls, ret, attempts, blocked_at_entry>>

\* one pass of the loop that invokes the engine's adapter
loop_try ==
    /\ pc = "loop"
    /\ idx <= Len(search_engines)
    /\ ~is_skipped(search_engines[idx], blocked_engines)
    /\ \E page \in Pages :
        LET engine_name == search_engines[idx]
            outcome == method(engine_name, driver, page, args.query,
                              args.max_results, args.include_snippets)
        IN
        /\ calls' = Append(calls,
                           [engine |-> engine_name, query |-> args.query,
                            max_results |-> args.max_results,
                            include_snippets |-> args.include_snippets,
                            raised |-> outcome.raised,
                            results |-> outcome.results,
                            find |-> page.find,
                            steps |-> adapter_steps(engine_name, driver,
                                                    page),
                            checked |-> checked_text(engine_name, driver,
                                                     page)])
        /\ blocked_engines' =
               blocked_after(outcome, engine_name, blocked_engines)
        /\ attempts' = [attempts EXCEPT ![engine_name] =
                            IF outcome.raised THEN "raised" ELSE "returned"]
        /\ IF propagates(outcome)
           THEN /\ ret' = SearchReturn(TRUE, <<>>, "none")
                /\ pc' = "idle"
                /\ idx' = idx
           ELSE IF returns_now(outcome)
           THEN /\ ret' = SearchReturn(FALSE, outcome.results, engine_name)
                /\ pc' = "idle"
                /\ idx' = idx
           ELSE /\ idx' = next_engine(idx)
                /\ UNCHANGED <<ret, pc>>
    /\ UNCHANGED <<driver, driver_initialized, args, blocked_at_entry>>

\* the loop has run out of engines: return [], "none"
loop_exhausted ==
    /\ pc = "loop"
    /\ idx > Len(search_engines)
    /\ ret' = SearchReturn(FALSE, <<>>, "none")
    /\ pc' = "idle"
    /\ UNCHANGED <<driver, driver_initialized, blocked_engines, idx, args,
                   calls, attempts, blocked_at_entry>>

(***************************************************************************)
(* Engine management and shutdown                                          *)
(***************************************************************************)
\* variant: only the first engine is released
cleared_google_only(blocked) == blocked \ {"google"}

\* self.blocked_engines.clear()
cleared(blocked) == {}

reset_blocked_engines ==
    /\ Serving
    /\ pc = "idle"
    /\ blocked_engines' = cleared(blocked_engines)
    /\ attempts' = [e \in Engines |-> "reset"]
    /\ ret' = [op |-> "reset_blocked_engines"]
    /\ args' = NoArgs
    /\ calls' = <<>>
    /\ blocked_at_entry' = blocked_engines
    /\ UNCHANGED <<driver, driver_initialized, pc, idx>>

\* for engine in self.search_engines: status[name] = ...
RECURSIVE engine_status_from(_, _, _)
engine_status_from(k, blocked, status) ==
    IF k > Len(search_engines) THEN status
    ELSE engine_status_from(
             k + 1, blocked,
             [n \in DOMAIN status \cup {search_engines[k]} |->
                 IF n = search_engines[k]
                 THEN IF n \in blocked THEN "blocked" ELSE "available"
                 ELSE status[n]])

EmptyDict == [n \in {} |-> "available"]

engine_status(blocked) == engine_status_from(1, blocked, EmptyDict)

get_engine_status ==
    /\ Serving
    /\ pc = "idle"
    /\ ret' = [op |-> "get_engine_status",
               status |-> engine_status(blocked_engines)]
    /\ args' = NoArgs
    /\ calls' = <<>>
    /\ blocked_at_entry' = blocked_engines
    /\ UNCHANGED <<driver, driver_initialized, blocked_engines, pc, idx,
                   attempts>>

\* WebSearcher.close: quit the driver if there is one; nothing is reset
close ==
    /\ Serving
    /\ pc = "idle"
    /\ driver' = IF driver = "None" THEN "None" ELSE "quit"
    /\ ret' = [op |-> "close"]
    /\ args' = NoArgs
    /\ calls' = <<>>
    /\ blocked_at_entry' = blocked_engines
    /\ UNCHANGED <<driver_initialized, blocked_engines, pc, idx, attempts>>

\* main's finally clause, reached when mcp.run() returns or raises, between
\* two tool calls or in the middle of one: searcher.close(), then the process
\* ends
main_finally ==
    /\ Serving
    /\ driver' = IF driver = "None" THEN "None" ELSE "quit"
    /\ ret' = [op |-> "exit"]
    /\ pc' = "idle"
    /\ idx' = 1
    /\ args' = NoArgs
    /\ calls' = <<>>
    /\ blocked_at_entry' = blocked_engines
    /\ UNCHANGED <<driver_initialized, blocked_engines, attempts>>

(***************************************************************************)
(* get_page_content                                                        *)
(*                                                                         *)
(* The rendered markup is a sequence of elements [tag, text]; a fetched    *)
(* page is [nav, title, source, soup] with title and source optional (<<>> *)
(* when reading them raises) and soup "raise" when building or walking the *)
(* parse tree raises.                                                      *)
(***************************************************************************)
\* get_webpage_content: max_length = min(max_length, 20000)
MaxLengthCap == 20000

Element(tag, text) == [tag |-> tag, text |-> text]

\* for script in soup(["script", "style", "nav", "header", "footer"]):
\*     script.decompose()
RemovedTags == {"script", "style", "nav", "header", "footer"}

\* soup.get_text() after the removal
RECURSIVE get_text(_)
get_text(markup) ==
    IF markup = <<>> THEN <<>>
    ELSE (IF Head(markup).tag \in RemovedTags THEN <<>>
          ELSE Head(markup).text) \o get_text(Tail(markup))

\* text.splitlines(): the pieces between newlines, without a trailing empty one
splitlines(text) ==
    LET pieces == Split(text, <<"\n">>) IN
    IF pieces[Len(pieces)] = <<>> THEN SubSeq(pieces, 1, Len(pieces) - 1)
    ELSE pieces

\* phrase.strip() for phrase in line.split("  "), over the stripped lines
RECURSIVE chunks_of(_)
chunks_of(lines) ==
    IF lines = <<>> THEN <<>>
    ELSE LET phrases == Split(Strip(Head(lines)), <<" ", " ">>) IN
         [k \in 1..Len(phrases) |-> Strip(phrases[k])]
         \o chunks_of(Tail(lines))

\* ' '.join(chunk for chunk in chunks if chunk)
RECURSIVE join_chunks(_)
join_chunks(chunks) ==
    IF chunks = <<>> THEN <<>>
    ELSE IF Head(chunks) = <<>> THEN join_chunks(Tail(chunks))
    ELSE LET rest == join_chunks(Tail(chunks)) IN
         IF rest = <<>> THEN Head(chunks)
         ELSE Head(chunks) \o <<" ">> \o rest

clean_text(markup) == join_chunks(chunks_of(splitlines(get_text(markup))))

Ellipsis == <<".", ".", ".">>

\* variant: the marker is counted into max_length
truncate_marker_inside(text, max_length) ==
    IF Len(text) > max_length
    THEN PySlicePrefix(text, max_length - Len(Ellipsis)) \o Ellipsis
    ELSE text

\* if len(text) > max_length: text = text[:max_length] + "..."
truncate(text, max_length) ==
    IF Len(text) > max_length
    THEN PySlicePrefix(text, max_length) \o Ellipsis
    ELSE text

\* "Error fetching content: "
ErrorPrefix ==
    <<"E", "r", "r", "o", "r", " ", "f", "e", "t", "c", "h", "i", "n", "g",
      " ", "c", "o", "n", "t", "e", "n", "t", ":", " ">>

PageContent(url, title, content, length) ==
    [url |-> url, title |-> title, content |-> content, length |-> length]

\* where the try block of get_page_content fails, "none" if nowhere
fetch_failure(setup_raised, drv, cpage) ==
    IF setup_raised THEN "setup"
    ELSE IF drv = "None" THEN "nodriver"
    ELSE IF drv = "quit" \/ cpage.nav = "raise" THEN "nav"
    ELSE IF cpage.title = <<>> THEN "title"
    ELSE IF cpage.source = <<>> THEN "source"
    ELSE IF cpage.soup = "raise" THEN "extract"
    ELSE "none"

\* str(e) of the exception of each failure
ErrorText(failure) ==
    CASE failure = "setup" -> <<"s">>
      [] failure = "nodriver" -> <<"d">>
      [] failure = "nav" -> <<"n">>
      [] failure = "title" -> <<"t">>
      [] failure = "source" -> <<"p">>
      [] failure = "extract" -> <<"x">>

\* variant: the driver set-up happens before the try block is entered
page_content_result_late_try(setup_raised, drv, cpage, url, max_length) ==
    LET failure == fetch_failure(setup_raised, drv, cpage) IN
    IF failure = "setup"
    THEN [op |-> "get_page_content", raised |-> TRUE, failure |-> failure,
          val |-> PageContent(url, <<>>, <<>>, 0)]
    ELSE IF failure # "none"
    THEN [op |-> "get_page_content", raised |-> FALSE, failure |-> failure,
          val |-> PageContent(url, <<>>, ErrorPrefix \o ErrorText(failure), 0)]
    ELSE LET text == truncate(clean_text(cpage.source[1]), max_length) IN
         [op |-> "get_page_content", raised |-> FALSE, failure |-> "none",
          val |-> PageContent(url, cpage.title[1], text, Len(text))]

\* The whole method: its try block and its except clause.
page_content_result(setup_raised, drv, cpage, url, max_length) ==
    LET failure == fetch_failure(setup_raised, drv, cpage) IN
    IF failure # "none"
    THEN [op |-> "get_page_content", raised |-> FALSE, failure |-> failure,
          val |-> PageContent(url, <<>>, ErrorPrefix \o ErrorText(failure), 0)]
    ELSE LET text == truncate(clean_text(cpage.source[1]), max_length) IN
         [op |-> "get_page_content", raised |-> FALSE, failure |-> "none",
          val |-> PageContent(url, cpage.title[1], text, Len(text))]

\* sample markups
M_empty == <<>>
M_layout ==
    <<Element("p", <<" ", "a", " ", " ", "b", "\n", "\n", " ", "c", " ">>)>>
M_script ==
    <<Element("script", <<"x", "x">>), Element("p", <<"a", "b", "c">>),
      Element("footer", <<"f">>), Element("p", <<"d", "e", "f">>)>>

ContentPage(nav, title, source, soup) ==
    [nav |-> nav, title |-> title, source |-> source, soup |-> soup]

ContentPages ==
    {ContentPage("raise", <<T_title>>, <<M_empty>>, "ok"),
     ContentPage("ok", <<>>, <<M_empty>>, "ok"),
     ContentPage("ok", <<T_title>>, <<>>, "ok"),
     ContentPage("ok", <<T_title>>, <<M_layout>>, "raise")}
    \cup {ContentPage("ok", <<T_title>>, <<m>>, "ok") :
              m \in {M_empty, M_layout, M_script}}

Urls == {U_plain, U_other}
MaxLengthInputs == {-1, 0, 3, 5, 30000}

get_page_content(url, max_length, setup_ok, cpage) ==
    LET need == needs_setup(driver, driver_initialized)
        drv == IF need /\ setup_ok THEN "live" ELSE driver
    IN
    /\ Serving
    /\ pc = "idle"
    /\ driver' = drv
    /\ driver_initialized' = IF need /\ setup_ok THEN TRUE
                             ELSE driver_initialized
    /\ ret' = page_content_result(need /\ ~setup_ok, drv, cpage, url,
                                  max_length)
    /\ args' = [url |-> url, max_length |-> max_length,
                caller |-> "get_page_content", markup |-> cpage.source]
    /\ calls' = <<>>
    /\ blocked_at_entry' = blocked_engines
    /\ UNCHANGED <<blocked_engines, pc, idx, attempts>>

get_webpage_content ==
    \E url \in Urls, max_length \in MaxLengthInputs,
       setup_ok \in SetupOutcomes, cpage \in ContentPages :
        get_page_content(url, Min(max_length, MaxLengthCap), setup_ok, cpage)

Next ==
    \/ search_web
    \/ legacy_search_google
    \/ loop_skip
    \/ loop_try
    \/ loop_exhausted
    \/ reset_blocked_engines
    \/ get_engine_status
    \/ close
    \/ get_webpage_content
    \/ main_finally

Spec == Init /\ [][Next]_vars

(***************************************************************************)
(* The parsers on their own: the inputs of one _parse_<engine>_results     *)
(* call are drawn at the start, the call puts the list it returns next to *)
(* them.                                                                   *)
(***************************************************************************)
ParserInit ==
    /\ driver = "live"
    /\ driver_initialized = TRUE
    /\ blocked_engines = {}
    /\ pc = "idle"
    /\ idx = 1
    /\ args \in [caller : {"parser"}, engine : Engines, page : Pages,
                 max_results : MaxResultsInputs, include_snippets : BOOLEAN]
    /\ calls = <<>>
    /\ ret = [op |-> "pending"]
    /\ attempts = [e \in Engines |-> "never"]
    /\ blocked_at_entry = {}

parse_call ==
    /\ ret.op = "pending"
    /\ ret' = [op |-> "parser",
               results |-> parse_results(args.engine, args.page,
                                         args.max_results,
                                         args.include_snippets)]
    /\ UNCHANGED <<driver, driver_initialized, blocked_engines, pc, idx, args,
                   calls, attempts, blocked_at_entry>>

ParserNext == parse_call

ParserSpec == ParserInit /\ [][ParserNext]_vars

(***************************************************************************)
(* Properties                                                              *)
(***************************************************************************)
\* position of an engine in the order of preference
Pos(e) == CHOOSE k \in 1..Len(search_engines) : search_engines[k] = e

\* the current (or last) operation is a search_with_fallback call
IsSearch == args.caller \in {"search_web", "search_google"}

\* that call has returned a value
SearchReturned ==
    IsSearch /\ pc = "idle" /\ ret.op = "search_with_fallback" /\ ~ret.raised

InvokedEngines == {calls[k].engine : k \in 1..Len(calls)}

NonEmpty(call) == ~call.raised /\ call.results # <<>>
Empty(call) == ~call.raised /\ call.results = <<>>

\* ---- C1 ----------------------------------------------------------------
\* the adapters invoked so far appear in the order google, duckduckgo, bing
C1_Order ==
    \A i, j \in 1..Len(calls) :
        i < j => Pos(calls[i].engine) < Pos(calls[j].engine)

\* a non-empty list ends the call at once: it is the last invocation and
\* the call has returned that list under that engine's name
C1_StopAtFirst ==
    \A i \in 1..Len(calls) :
        NonEmpty(calls[i]) =>
            /\ i = Len(calls)
            /\ pc = "idle"
            /\ ret = SearchReturn(FALSE, calls[i].results, calls[i].engine)

\* inside the loop, the engines invoked are exactly those before the loop
\* position that were not blocked when the call was entered
C1_Covered ==
    (IsSearch /\ pc = "loop") =>
        InvokedEngines =
            {search_engines[k] : k \in
                {n \in 1..(idx - 1) : search_engines[n] \notin blocked_at_entry}}

\* a step that invokes an adapter invokes the engine at the loop position,
\* which is not blocked at that moment; a blocked engine is passed over
C1_Step ==
    /\ (calls' # calls /\ calls' # <<>>) =>
           /\ pc = "loop"
           /\ idx <= Len(search_engines)
           /\ search_engines[idx] \notin blocked_engines
           /\ Len(calls') = Len(calls) + 1
           /\ SubSeq(calls', 1, Len(calls)) = calls
           /\ calls'[Len(calls')].engine = search_engines[idx]
    /\ (pc = "loop" /\ idx <= Len(search_engines) /\ Serving'
        /\ search_engines[idx] \in blocked_engines) => calls' = calls

\* C1: In every call of search_with_fallback the adapters are invoked in the
\* fixed order google, duckduckgo, bing; an engine that is in blocked_engines
\* when the loop reaches it is not invoked; and the call returns at the first
\* adapter that returns a non-empty list, so no later engine is invoked.
C1_FixedOrderSkipBlockedStopAtFirst ==
    [](C1_Order /\ C1_StopAtFirst /\ C1_Covered) /\ [][C1_Step]_vars

\* a call that passed over blocked google, invoked duckduckgo, got a
\* non-empty list and returned without invoking bing
C1_Witness ==
    /\ SearchReturned
    /\ "google" \in blocked_at_entry
    /\ Len(calls) = 1
    /\ calls[1].engine = "duckduckgo"
    /\ ret.engine_used = "duckduckgo"
    /\ "bing" \notin blocked_engines

C3_BlockedIffLastAttemptRaised ==
    blocked_engines = {e \in Engines : attempts[e] = "raised"}

\* after a reset: google raised again, duckduckgo returned, bing untouched
C3_Witness ==
    /\ attempts["google"] = "raised"
    /\ attempts["duckduckgo"] = "returned"
    /\ attempts["bing"] = "reset"
    /\ blocked_engines = {"google"}

\* ---- C4 ----------------------------------------------------------------
\* C4: When all three engines are in blocked_engines before the call,
\* search_with_fallback returns ([], "none"), invokes no adapter and leaves
\* the blocked set unchanged.
C4_AllBlocked ==
    (IsSearch /\ blocked_at_entry = Engines) =>
        /\ calls = <<>>
        /\ blocked_engines = Engines
        /\ pc = "idle" => ret = SearchReturn(FALSE, <<>>, "none")

\* such a call has returned
C4_Witness ==
    /\ SearchReturned
    /\ blocked_at_entry = Engines
    /\ ret.engine_used = "none"

\* ---- C5 ----------------------------------------------------------------
AllAvailable == [e \in Engines |-> "available"]

\* get_engine_status maps exactly the three engines, each to "blocked" when
\* it is in blocked_engines and to "available" otherwise
C5_StatusMirrorsBlocked ==
    ret.op = "get_engine_status" =>
        /\ DOMAIN ret.status = Engines
        /\ \A e \in Engines :
               /\ ret.status[e] \in {"blocked", "available"}
               /\ ret.status[e] = "blocked" <=> e \in blocked_engines

\* get_engine_status right after reset_blocked_engines
C5_ResetThenStatus ==
    (ret.op = "reset_blocked_engines" /\ ret'.op = "get_engine_status") =>
        ret'.status = AllAvailable

\* C5: From any reachable blocked set, reset_blocked_engines followed by
\* get_engine_status returns {google: available, duckduckgo: available,
\* bing: available}; in general get_engine_status maps each of the three
\* engines to "blocked" exactly when it is in blocked_engines and to
\* "available" otherwise.
C5_ResetAndStatus ==
    [](C5_StatusMirrorsBlocked) /\ [][C5_ResetThenStatus]_vars

\* a status taken right after a reset that released engines which had raised:
\* no engine has been attempted since the reset
C5_Witness ==
    /\ ret.op = "get_engine_status"
    /\ \A e \in Engines : attempts[e] = "reset"
    /\ ret.status = AllAvailable

\* ---- C6 ----------------------------------------------------------------
\* an adapter that returns an empty list leaves blocked_engines as it was
\* and the loop goes on to the next engine
C6_Step ==
    (calls' # calls /\ calls' # <<>> /\ Empty(calls'[Len(calls')])) =>
        /\ blocked_engines' = blocked_engines
        /\ pc' = "loop"
        /\ idx' = idx + 1

\* a call in which every invoked adapter returned an empty list returns
\* ([], "none") with the blocked set it was entered with
C6_AllEmpty ==
    (SearchReturned /\ \A k \in 1..Len(calls) : Empty(calls[k])) =>
        /\ ret = SearchReturn(FALSE, <<>>, "none")
        /\ blocked_engines = blocked_at_entry

\* C6: When an adapter returns an empty list without raising, the engine is
\* not added to blocked_engines and the next engine in the order is tried;
\* if every unblocked engine returns an empty list the call returns
\* ([], "none") with the blocked set unchanged.
C6_EmptyIsNotFailure ==
    [](C6_AllEmpty) /\ [][C6_Step]_vars

\* google was blocked, duckduckgo and bing both returned empty lists
C6_Witness ==
    /\ SearchReturned
    /\ blocked_at_entry = {"google"}
    /\ Len(calls) = 2
    /\ Empty(calls[1]) /\ Empty(calls[2])
    /\ ret.engine_used = "none"
    /\ blocked_engines = {"google"}

\* ---- C7 ----------------------------------------------------------------
\* C7: Once the browser driver is available, search_with_fallback never
\* raises, whatever adapters raise: it raises only when the driver set-up
\* itself failed, before any adapter ran; every adapter exception leaves the
\* engine in blocked_engines and the loop at the next engine; and a call in
\* which no adapter returned a non-empty list returns ([], "none").
C7_NeverRaises ==
    IsSearch =>
        /\ (pc = "idle" /\ ret.raised) => (calls = <<>> /\ driver = "None")
        /\ \A k \in 1..Len(calls) :
               calls[k].raised =>
                   /\ calls[k].engine \in blocked_engines
                   /\ pc = "loop" => idx > Pos(calls[k].engine)
        /\ (/\ pc = "idle"
            /\ driver # "None"
            /\ \A k \in 1..Len(calls) : ~NonEmpty(calls[k])) =>
               ret = SearchReturn(FALSE, <<>>, "none")

\* all three adapters raised and the call returned ([], "none")
C7_Witness ==
    /\ SearchReturned
    /\ Len(calls) = 3
    /\ \A k \in 1..3 : calls[k].raised
    /\ ret.engine_used = "none"
    /\ blocked_engines = Engines

\* ---- C8 ----------------------------------------------------------------
\* C8: get_page_content never raises: on a failure anywhere on its path
\* (driver set-up, navigation, reading title or markup, text extraction) it
\* returns the requested url, an empty title, a content that is an error message and
\* length 0, and blocked_engines is left as it was.
C8_FetchFailureIsData ==
    ret.op = "get_page_content" =>
        /\ ~ret.raised
        /\ blocked_engines = blocked_at_entry
        /\ ret.val.url = args.url
        /\ ret.failure # "none" =>
               /\ ret.val.title = <<>>
               /\ StartsWith(ret.val.content, ErrorPrefix)
               /\ Len(ret.val.content) > Len(ErrorPrefix)
               /\ ret.val.length = 0

\* a fetch failed after the set-up while an engine was blocked
C8_Witness ==
    /\ ret.op = "get_page_content"
    /\ ret.failure \in {"nav", "title", "source", "extract"}
    /\ blocked_engines # {}

\* ---- C9 ----------------------------------------------------------------
\* C9: In every result list returned by an engine adapter the rank of the
\* k-th record is k, also when earlier containers were skipped: a skipped
\* container does not consume a rank value.
C9_RankIsPosition ==
    \A k \in 1..Len(calls) :
        \A j \in 1..Len(calls[k].results) : calls[k].results[j].rank = j

\* ---- C10 ---------------------------------------------------------------
\* C10: If the DOM query that locates the result containers raises inside an
\* engine's adapter, that adapter invocation raises to search_with_fallback,
\* which adds the engine to blocked_engines and moves on to the next engine.
C10_LocateFailureBlocks ==
    \A k \in 1..Len(calls) :
        calls[k].find = "raise" =>
            /\ calls[k].raised
            /\ calls[k].engine \in blocked_engines

\* ---- C11 ---------------------------------------------------------------
Before(steps, a, b) ==
    \E i, j \in 1..Len(steps) : i < j /\ steps[i] = a /\ steps[j] = b

\* the text, lowercased, contains one of the block phrases
HasBlockPhrase(text) ==
    \E k \in 1..Len(blocked_indicators) :
        Find(LowerCase(text), blocked_indicators[k]) > 0

MetBlockPage(call) ==
    /\ call.engine = "google"
    /\ call.checked # <<>>
    /\ HasBlockPhrase(call.checked[1])

\* in every Google attempt the block check comes after the wait and before
\* the parser; an attempt whose page shows a block phrase raised, never
\* reached the parser, left google blocked, and the next adapter invoked is
\* duckduckgo (bing when duckduckgo was blocked already)
C11_CheckedBeforeParse ==
    \A k \in 1..Len(calls) :
        /\ calls[k].engine = "google" =>
               /\ "check" \in Range(calls[k].steps) =>
                      Before(calls[k].steps, "wait", "check")
               /\ "parse" \in Range(calls[k].steps) =>
                      Before(calls[k].steps, "check", "parse")
        /\ MetBlockPage(calls[k]) =>
               /\ calls[k].raised
               /\ "parse" \notin Range(calls[k].steps)
               /\ "google" \in blocked_engines
               /\ k < Len(calls) =>
                      calls[k + 1].engine =
                          IF "duckduckgo" \in blocked_at_entry
                          THEN "bing" ELSE "duckduckgo"

\* the pass that meets the block page does not end the search: the loop goes
\* on at the engine after google
C11_Step ==
    (calls' # calls /\ calls' # <<>> /\ MetBlockPage(calls'[Len(calls')])) =>
        /\ pc' = "loop"
        /\ idx' = Pos("google") + 1
        /\ ret' = ret

\* C11: in a Google attempt the block check runs after the wait for the
\* results region and before extraction; when the page text contains a block
\* phrase the adapter raises, the parser is not invoked for that attempt,
\* google is added to blocked_engines and the search continues with
\* duckduckgo
C11_BlockPageFallsBack == []C11_CheckedBeforeParse /\ [][C11_Step]_vars

C11_Witness ==
    /\ IsSearch
    /\ Len(calls) >= 2
    /\ calls[1].engine = "google"
    /\ calls[1].checked = <<P_captcha>>
    /\ calls[1].raised
    /\ calls[2].engine = "duckduckgo"
    /\ NonEmpty(calls[2])

\* ---- C12 ---------------------------------------------------------------
ViaSearchWeb == args.caller = "search_web"

\* a search_web call asked for more than the cap runs with the cap: that is
\* the limit search_with_fallback holds and every adapter receives
C12_LimitIsCap ==
    (ViaSearchWeb /\ args.requested > MaxResultsCap) =>
        /\ args.max_results = MaxResultsCap
        /\ \A k \in 1..Len(calls) : calls[k].max_results = MaxResultsCap

\* what an adapter handed the limit 100 can come back with, per engine,
\* session, query and snippet flag, over every page
OutcomesAtCap ==
    {[engine |-> e, driver |-> d, query |-> q, include_snippets |-> s,
      outcome |-> method(e, d, page, q, MaxResultsCap, s)] :
         e \in Engines, d \in {"live", "quit"}, q \in Queries,
         s \in BOOLEAN, page \in Pages}

\* every adapter pass of such a call is a pass the call with max_results =
\* 100 makes from the same state: same outcome logged, same blocked set and
\* same return value
C12_Step ==
    (calls' # calls /\ calls' # <<>> /\ ViaSearchWeb
     /\ args.requested > MaxResultsCap) =>
        LET engine_name == search_engines[idx]
            logged == calls'[Len(calls')]
            at100 == [raised |-> logged.raised, results |-> logged.results]
        IN
        /\ logged.engine = engine_name
        /\ logged.max_results = MaxResultsCap
        /\ [engine |-> engine_name, driver |-> driver, query |-> args.query,
            include_snippets |-> args.include_snippets,
            outcome |-> at100] \in OutcomesAtCap
        /\ blocked_engines' =
               blocked_after(at100, engine_name, blocked_engines)
        /\ IF returns_now(at100)
           THEN ret' = SearchReturn(FALSE, at100.results, engine_name)
           ELSE ret' = ret

\* C12: search_web called with any max_results above 100 behaves as the call
\* with max_results = 100 from the same state: every adapter it invokes
\* receives the limit 100, and the returned list and the resulting blocked
\* set are the same
C12_AboveCapIsCap == []C12_LimitIsCap /\ [][C12_Step]_vars

C12_Witness ==
    /\ SearchReturned
    /\ ViaSearchWeb
    /\ args.requested > MaxResultsCap
    /\ Len(calls) = 2
    /\ calls[1].raised
    /\ calls[2].max_results = MaxResultsCap
    /\ ret.results # <<>>

\* ---- C13 ---------------------------------------------------------------
\* C13: within one search_with_fallback call each engine's adapter is invoked
\* at most once: no engine appears twice among the call's invocations,
\* whether its attempt raised, timed out or came back empty
C13_AtMostOncePerEngine ==
    \A i, j \in 1..Len(calls) :
        calls[i].engine = calls[j].engine => i = j

\* an empty attempt and a raised one, each followed by the next engine
C13_Witness ==
    /\ SearchReturned
    /\ Len(calls) = 3
    /\ Empty(calls[1])
    /\ calls[2].raised
    /\ ret.engine_used = "bing"

\* ---- C16 ---------------------------------------------------------------
FetchSucceeded ==
    /\ args.caller = "get_page_content"
    /\ ret.op = "get_page_content"
    /\ ret.failure = "none"

\* C16: in get_page_content, for every max_length >= 0, a cleaned text longer
\* than max_length comes back as exactly its first max_length characters
\* followed by "..." (max_length + 3 characters), any other cleaned text comes
\* back unchanged with no marker, and in both cases the length field is the
\* character count of the returned content
C16_TruncationAndLength ==
    (FetchSucceeded /\ args.max_length >= 0) =>
        LET cleaned == clean_text(args.markup[1])
            content == ret.val.content
        IN
        /\ Len(cleaned) > args.max_length =>
               /\ content = SubSeq(cleaned, 1, args.max_length) \o Ellipsis
               /\ Len(content) = args.max_length + 3
        /\ Len(cleaned) <= args.max_length => content = cleaned
        /\ ret.val.length = Len(content)

\* a text cut in the middle, marker appended
C16_Witness ==
    /\ FetchSucceeded
    /\ args.max_length = 3
    /\ Len(clean_text(args.markup[1])) = 6
    /\ ret.val.length = 6
    /\ SubSeq(ret.val.content, 4, 6) = Ellipsis

\* ---- C14 ---------------------------------------------------------------
ParserReturned == args.caller = "parser" /\ ret.op = "parser"

\* the container a record was made from: rank is its document position
ContainerOf(r) == args.page.containers[r.rank]

\* the first candidate text of c, from selector k on, longer than the floor
RECURSIVE FirstAboveFloor(_, _)
FirstAboveFloor(c, k) ==
    IF k > Len(c.snips) THEN <<>>
    ELSE IF c.snips[k] # <<>> /\ Len(Strip(c.snips[k][1])) > SnippetFloor
    THEN Strip(c.snips[k][1])
    ELSE FirstAboveFloor(c, k + 1)

\* C14: for every engine, with snippets requested the snippet of an emitted
\* record is the first candidate text, in candidate order, whose length
\* exceeds 20 ("" if none does); with snippets not requested it is ""
C14_SnippetAboveFloor ==
    ParserReturned =>
        \A k \in 1..Len(ret.results) :
            ret.results[k].snippet =
                IF args.include_snippets
                THEN FirstAboveFloor(ContainerOf(ret.results[k]), 1)
                ELSE <<>>

\* ---- C15 ---------------------------------------------------------------
\* C15: every record emitted by any engine's parser has a non-empty title and
\* a non-empty url
C15_TitleAndUrlNonEmpty ==
    ParserReturned =>
        \A k \in 1..Len(ret.results) :
            /\ ret.results[k].title # <<>>
            /\ ret.results[k].url # <<>>

\* ---- C18 ---------------------------------------------------------------
\* a DOM call on container c raises while the loop body works on it
Raises(c, include_snippets) ==
    c.exc = "title" \/ (c.exc = "snippet" /\ include_snippets)

Unranked(results) ==
    [k \in 1..Len(results) |-> [results[k] EXCEPT !.rank = 0]]

\* C18: in every engine's extraction loop an exception raised on one
\* container only skips that container: the list returned is, rank aside,
\* the list the same page gives with the raising containers taken out of the
\* first max_results, in document order
C18_FailureSkipsOneContainer ==
    (ParserReturned /\ args.page.find = "ok" /\ args.max_results >= 0) =>
        LET Sound(c) == ~Raises(c, args.include_snippets)
            first == SubSeq(args.page.containers, 1,
                            Min(args.max_results, Len(args.page.containers)))
        IN
        Unranked(ret.results) =
            Unranked(parse_loop(args.engine, SelectSeq(first, Sound), 0,
                                args.include_snippets, <<>>))

\* a raising container first, the record of the one after it returned
C18_Witness ==
    /\ ParserReturned
    /\ args.max_results >= 2
    /\ args.page.containers = <<C_stale, C_good>>
    /\ Len(ret.results) = 1
    /\ ret.results[1].url = U_plain

\* ---- C19 ---------------------------------------------------------------
\* C19: for every integer max_results passed to search_web, 0 and negative
\* ones included, the returned list holds at most max(0, min(max_results,
\* 100)) records, made from the first that many containers of the page
C19_AtMostLimit ==
    (SearchReturned /\ ViaSearchWeb) =>
        LET limit == Max(0, Min(args.requested, MaxResultsCap)) IN
        /\ Len(ret.results) <= limit
        /\ \A k \in 1..Len(ret.results) : ret.results[k].rank <= limit

\* ---- C20 ---------------------------------------------------------------
\* during and after a search the blocked set holds every name it held when
\* the search was entered, no adapter of such a name was invoked, and a
\* search entered with every engine blocked invoked none and returned
\* ([], "none")
C20_BlockedStaysBlocked ==
    IsSearch =>
        /\ blocked_at_entry \subseteq blocked_engines
        /\ InvokedEngines \cap blocked_at_entry = {}
        /\ (SearchReturned /\ blocked_at_entry = Engines) =>
               /\ calls = <<>>
               /\ ret.results = <<>>
               /\ ret.engine_used = "none"

\* a step that takes a name out of the blocked set is a reset
C20_Step ==
    ~(blocked_engines \subseteq blocked_engines') =>
        /\ pc = "idle"
        /\ ret'.op = "reset_blocked_engines"
        /\ blocked_engines' = {}

\* C20: no search_with_fallback call removes a name from blocked_engines: a
\* blocked engine is never invoked, the blocked set after a search is a
\* superset of the set before it, only reset_blocked_engines makes a blocked
\* engine available again, and with all three blocked every search returns
\* ([], "none")
C20_OnlyResetUnblocks == []C20_BlockedStaysBlocked /\ [][C20_Step]_vars

\* a search entered with google blocked that succeeded on duckduckgo
C20_Witness ==
    /\ SearchReturned
    /\ blocked_at_entry = {"google"}
    /\ ret.engine_used = "duckduckgo"
    /\ blocked_engines = {"google"}

\* ---- C17 ---------------------------------------------------------------
\* the operations that need the session
NeedsSession == {"search_web", "search_google", "get_page_content"}

\* no adapter and no fetch runs on a session that has been quit
C17_NoUseAfterQuit ==
    /\ (IsSearch /\ calls # <<>>) => driver # "quit"
    /\ (args.caller = "get_page_content"
        /\ ret.failure \notin {"setup", "nodriver"}) => driver # "quit"

\* a session comes into being only where there was none, in an operation
\* that needs it, and from then on no other one is created; the shutdown
\* quits the session if there is one
C17_Step ==
    /\ (driver # "live" /\ driver' = "live") =>
           /\ driver = "None"
           /\ args'.caller \in NeedsSession
    /\ driver # "None" => driver' # "None"
    /\ (ret'.op = "exit" /\ driver # "None") => driver' = "quit"

\* C17: over any sequence of search_with_fallback, get_page_content and close
\* calls on one WebSearcher the session is created only by the first
\* operation that needs it and at most once; at shutdown its quit is invoked
\* if a session exists; and no operation uses the session after it has been
\* quit
C17_SessionLifecycle == []C17_NoUseAfterQuit /\ [][C17_Step]_vars

\* ---- C21 ---------------------------------------------------------------
\* engine e was passed over as blocked in this call
SkippedAsBlocked(e) == e \in blocked_at_entry /\ e \notin InvokedEngines

\* engine e was invoked in this call and came back with an empty list
ReturnedEmpty(e) ==
    \E k \in 1..Len(calls) : calls[k].engine = e /\ Empty(calls[k])

\* engine e was invoked in this call, raised, and is blocked now
RaisedAndBlocked(e) ==
    /\ \E k \in 1..Len(calls) : calls[k].engine = e /\ calls[k].raised
    /\ e \in blocked_engines

\* C21: for every return of search_with_fallback the engine name is "none"
\* if and only if the returned list is empty; a name other than "none" is one
\* of google, duckduckgo, bing, that engine is not in blocked_engines on
\* return, and every engine earlier in the order was in this call skipped as
\* blocked, or returned an empty list, or raised and is blocked now
C21_ReturnIsConsistent ==
    SearchReturned =>
        /\ ret.engine_used = "none" <=> ret.results = <<>>
        /\ ret.engine_used # "none" =>
               /\ ret.engine_used \in Engines
               /\ ret.engine_used \notin blocked_engines
               /\ \A e \in Engines :
                      Pos(e) < Pos(ret.engine_used) =>
                          \/ SkippedAsBlocked(e)
                          \/ ReturnedEmpty(e)
                          \/ RaisedAndBlocked(e)

\* bing answered after google was skipped as blocked and duckduckgo came
\* back empty
C21_Witness ==
    /\ SearchReturned
    /\ ret.engine_used = "bing"
    /\ ret.results # <<>>
    /\ SkippedAsBlocked("google")
    /\ ReturnedEmpty("duckduckgo")

====
